---- MODULE Spec2Model ----
(***************************************************************************)
(* MetaSearch frontend: the Home view (search fan-out client) and the      *)
(* Admin view (source registry client), each a React component whose       *)
(* handlers run to their first await, and whose continuations run when the *)
(* backend's response is delivered.                                        *)
(*                                                                         *)
(* Text that the code inspects character by character (the query that is   *)
(* trimmed, the config that is parsed and pretty-printed) is a sequence of *)
(* one-character strings.  Text that the code only passes along (names,    *)
(* notification messages, URLs) is a TLA+ string.  Notification messages   *)
(* are written without their diacritics.                                   *)
(***************************************************************************)
EXTENDS Integers, Sequences, FiniteSets, TLC

\* ------------------------------------------------------------------ bounds

\* Requests the view may have outstanding at once.
MaxInFlight == 2

\* Write requests (create, update, toggle, delete) the user issues in one visit
\* of the Admin view.
MaxWrites == 1

\* ------------------------------------------------------------- JSON values

\* A JSON value: t is its kind.  An object's members m are <<k, v>> records in
\* property order; an array's members carry the empty key.
JV(t, b, n, s, m) == [t |-> t, b |-> b, n |-> n, s |-> s, m |-> m]

JNull == JV("null", FALSE, 0, <<>>, <<>>)

JBool(b) == JV("boolean", b, 0, <<>>, <<>>)

JNum(n) == JV("number", FALSE, n, <<>>, <<>>)

JStr(s) == JV("string", FALSE, 0, s, <<>>)

JArr(m) == JV("array", FALSE, 0, <<>>, m)

JObj(m) == JV("object", FALSE, 0, <<>>, m)

Member(k, v) == [k |-> k, v |-> v]

Elem(v) == [k |-> <<>>, v |-> v]

\* ------------------------------------------------------------ JSON.stringify

DigitChars == <<"0", "1", "2", "3", "4", "5", "6", "7", "8", "9">>

RECURSIVE Digits(_)
Digits(n) == IF n < 10 THEN <<DigitChars[n + 1]>>
             ELSE Digits(n \div 10) \o <<DigitChars[(n % 10) + 1]>>

NumText(n) == IF n < 0 THEN <<"-">> \o Digits(-n) ELSE Digits(n)

RECURSIVE Spaces(_)
Spaces(n) == IF n <= 0 THEN <<>> ELSE <<" ">> \o Spaces(n - 1)

Quote(s) == <<"\"">> \o s \o <<"\"">>

\* JSON.stringify(v, null, space) at indentation ind: with space = 0 the text
\* is compact, otherwise every member starts a line, indented by space more
\* than its container, and a colon is followed by one space.
RECURSIVE Stringify(_, _, _)
RECURSIVE StringifyMembers(_, _, _, _, _)
StringifyMembers(m, i, isObj, ind, space) ==
    IF i > Len(m) THEN <<>>
    ELSE (IF space > 0 THEN <<"\n">> \o Spaces(ind) ELSE <<>>)
         \o (IF isObj
             THEN Quote(m[i].k) \o <<":">> \o (IF space > 0 THEN <<" ">> ELSE <<>>)
             ELSE <<>>)
         \o Stringify(m[i].v, ind, space)
         \o (IF i < Len(m) THEN <<",">> ELSE <<>>)
         \o StringifyMembers(m, i + 1, isObj, ind, space)

Stringify(v, ind, space) ==
    CASE v.t = "null" -> <<"n", "u", "l", "l">>
      [] v.t = "boolean" -> IF v.b THEN <<"t", "r", "u", "e">>
                            ELSE <<"f", "a", "l", "s", "e">>
      [] v.t = "number" -> NumText(v.n)
      [] v.t = "string" -> Quote(v.s)
      [] v.t = "array" ->
            IF Len(v.m) = 0 THEN <<"[", "]">>
            ELSE <<"[">> \o StringifyMembers(v.m, 1, FALSE, ind + space, space)
                 \o (IF space > 0 THEN <<"\n">> \o Spaces(ind) ELSE <<>>) \o <<"]">>
      [] v.t = "object" ->
            IF Len(v.m) = 0 THEN <<"{", "}">>
            ELSE <<"{">> \o StringifyMembers(v.m, 1, TRUE, ind + space, space)
                 \o (IF space > 0 THEN <<"\n">> \o Spaces(ind) ELSE <<>>) \o <<"}">>

JSONStringifyCompact(v, space) == Stringify(v, 0, 0)

JSONStringify(v, space) == Stringify(v, 0, space)

\* ---------------------------------------------------------------- JSON.parse
\* The grammar of JSON over the characters the model types: structural
\* characters, JSON whitespace, integers, the three literals and strings
\* without escapes.

JsonWhitespace == {" ", "\n", "\t", "\r"}

RECURSIVE SkipWs(_, _)
SkipWs(t, p) == IF p <= Len(t) /\ t[p] \in JsonWhitespace THEN SkipWs(t, p + 1) ELSE p

ParseFail == [ok |-> FALSE, v |-> JNull, p |-> 0]

ParseOk(v, p) == [ok |-> TRUE, v |-> v, p |-> p]

DigitValue(c) == CHOOSE d \in 0..9 : DigitChars[d + 1] = c

IsDigit(c) == \E d \in 1..10 : DigitChars[d] = c

\* The closing quote of the string whose first character is at p; 0 when a
\* character that may not stand in a string, or the end of the text, comes first.
RECURSIVE StringEnd(_, _)
StringEnd(t, p) ==
    IF p > Len(t) THEN 0
    ELSE IF t[p] = "\"" THEN p
    ELSE IF t[p] \in {"\n", "\t", "\r"} THEN 0
    ELSE StringEnd(t, p + 1)

ParseString(t, p) ==
    LET e == StringEnd(t, p + 1) IN
    IF e = 0 THEN ParseFail ELSE ParseOk(JStr(SubSeq(t, p + 1, e - 1)), e + 1)

RECURSIVE DigitsEnd(_, _)
DigitsEnd(t, p) == IF p <= Len(t) /\ IsDigit(t[p]) THEN DigitsEnd(t, p + 1) ELSE p

RECURSIVE DigitsValue(_, _, _)
DigitsValue(t, p, e) ==
    IF p >= e THEN 0 ELSE DigitsValue(t, p, e - 1) * 10 + DigitValue(t[e - 1])

\* -? ( 0 | [1-9][0-9]* )
ParseNumber(t, p) ==
    LET neg == t[p] = "-"
        d == IF neg THEN p + 1 ELSE p
        e == IF d <= Len(t) /\ t[d] = "0" THEN d + 1 ELSE DigitsEnd(t, d)
    IN IF e = d THEN ParseFail
       ELSE ParseOk(JNum(IF neg THEN -DigitsValue(t, d, e) ELSE DigitsValue(t, d, e)), e)

ParseLiteral(t, p, lit, v) ==
    IF p + Len(lit) - 1 <= Len(t) /\ SubSeq(t, p, p + Len(lit) - 1) = lit
    THEN ParseOk(v, p + Len(lit)) ELSE ParseFail

\* Assigning a key an object already has replaces its value in place.
RECURSIVE PutMember(_, _, _, _)
PutMember(m, i, k, v) ==
    IF i > Len(m) THEN Append(m, Member(k, v))
    ELSE IF m[i].k = k THEN [m EXCEPT ![i] = Member(k, v)]
    ELSE PutMember(m, i + 1, k, v)

RECURSIVE ParseValue(_, _)
RECURSIVE ParseMembers(_, _, _)
RECURSIVE ParseElements(_, _, _)

\* p is at the first member's key (after whitespace).
ParseMembers(t, p, acc) ==
    LET q == SkipWs(t, p) IN
    IF q > Len(t) \/ t[q] # "\"" THEN ParseFail
    ELSE LET key == ParseString(t, q) IN
         IF ~key.ok THEN ParseFail
         ELSE LET c == SkipWs(t, key.p) IN
              IF c > Len(t) \/ t[c] # ":" THEN ParseFail
              ELSE LET val == ParseValue(t, c + 1) IN
                   IF ~val.ok THEN ParseFail
                   ELSE LET acc2 == PutMember(acc, 1, key.v.s, val.v)
                            n == SkipWs(t, val.p)
                        IN IF n > Len(t) THEN ParseFail
                           ELSE IF t[n] = "," THEN ParseMembers(t, n + 1, acc2)
                           ELSE IF t[n] = "}" THEN ParseOk(JObj(acc2), n + 1)
                           ELSE ParseFail

ParseElements(t, p, acc) ==
    LET val == ParseValue(t, p) IN
    IF ~val.ok THEN ParseFail
    ELSE LET acc2 == Append(acc, Elem(val.v))
             n == SkipWs(t, val.p)
         IN IF n > Len(t) THEN ParseFail
            ELSE IF t[n] = "," THEN ParseElements(t, n + 1, acc2)
            ELSE IF t[n] = "]" THEN ParseOk(JArr(acc2), n + 1)
            ELSE ParseFail

ParseValue(t, p) ==
    LET q == SkipWs(t, p) IN
    IF q > Len(t) THEN ParseFail
    ELSE CASE t[q] = "{" ->
                LET n == SkipWs(t, q + 1) IN
                IF n <= Len(t) /\ t[n] = "}" THEN ParseOk(JObj(<<>>), n + 1)
                ELSE ParseMembers(t, q + 1, <<>>)
           [] t[q] = "[" ->
                LET n == SkipWs(t, q + 1) IN
                IF n <= Len(t) /\ t[n] = "]" THEN ParseOk(JArr(<<>>), n + 1)
                ELSE ParseElements(t, q + 1, <<>>)
           [] t[q] = "\"" -> ParseString(t, q)
           [] t[q] = "-" \/ IsDigit(t[q]) -> ParseNumber(t, q)
           [] t[q] = "t" -> ParseLiteral(t, q, <<"t", "r", "u", "e">>, JBool(TRUE))
           [] t[q] = "f" -> ParseLiteral(t, q, <<"f", "a", "l", "s", "e">>, JBool(FALSE))
           [] t[q] = "n" -> ParseLiteral(t, q, <<"n", "u", "l", "l">>, JNull)
           [] OTHER -> ParseFail

\* JSON.parse(t): ok is FALSE where JSON.parse throws a SyntaxError.
JSONParse(t) ==
    LET r == ParseValue(t, 1) IN
    IF r.ok /\ SkipWs(t, r.p) > Len(t) THEN [ok |-> TRUE, v |-> r.v]
    ELSE [ok |-> FALSE, v |-> JNull]

\* --------------------------------------------------------------------- data

\* CONTENT_TYPES: three of the six values; the others are handled alike.
ContentTypes == {"game", "movie", "book"}

Source(id, name, type, url, method, config, enabled) ==
    [id |-> id, name |-> name, type |-> type, url_base |-> url,
     search_method |-> method, config |-> config, enabled |-> enabled]

\* editingSource = null
Null == [id |-> 0]

ObjA1 == JObj(<<Member(<<"a">>, JNum(1))>>)

\* What POST /seed inserts into an empty collection.
SeedSources ==
    << Source(1, "Steam", "game", "https://s/?q={query}", "api", ObjA1, TRUE) >>

\* The collection the Home view is loaded over: the seeded source and a
\* disabled movie source added through the Admin view.
StoredSources ==
    Append(SeedSources,
           Source(2, "Netflix", "movie", "https://n/?q={query}", "scraping",
                  JObj(<<>>), FALSE))

\* useState initial value of formData, also what resetForm sets.
EmptyForm ==
    [name |-> "", type |-> "game", url_base |-> "", search_method |-> "scraping",
     config |-> <<"{", "}">>, enabled |-> TRUE]

\* Texts the user types into the config field: JSON that is no object, and
\* text that is no JSON.
TxtArray == <<"[", "1", "]">>

TxtUnclosed == <<"{", "\"", "a", "\"", ":", "1">>

TypedConfigs == {TxtArray, TxtUnclosed}

\* Texts the user types into the search box.
TypedQueries == { <<>>, <<" ">>, <<" ", "a", "\t">> }

\* -------------------------------------------------------------------- state

VARIABLES
    route,            \* the page the browser loaded: "/" (Home) or "/admin" (Admin)
    mounted,          \* the view's mount effect has run
    db,               \* the backend's collection of source configs
    created,          \* how many sources the backend has created
    writes,           \* how many write requests the Admin view has sent
    net,              \* requests awaiting their response, in the order sent
    toast,            \* the notification the latest step raised, "" if none
    sources,          \* the view's list state (Home and Admin each have one)
    loading,          \* Admin
    dialogOpen,       \* Admin
    editingSource,    \* Admin
    formData,         \* Admin
    query,            \* Home
    contentType,      \* Home
    selectedSources,  \* Home
    searching,        \* Home
    results,          \* Home
    hasSearched,      \* Home
    toggles           \* per source id, the parity of the clicks on its switch

adminState == <<sources, loading, dialogOpen, editingSource, formData>>

homeState == <<query, contentType, selectedSources, searching, results, hasSearched>>

vars == <<route, mounted, db, created, writes, net, toast, sources, loading, dialogOpen,
          editingSource, formData, query, contentType, selectedSources, searching,
          results, hasSearched, toggles>>

\* ------------------------------------------------------------------ requests

Req(kind, method, path, id, type, body) ==
    [kind |-> kind, method |-> method, path |-> path, id |-> id, type |-> type,
     body |-> body, status |-> "pending", data |-> <<>>]

RemoveAt(s, i) == SubSeq(s, 1, i - 1) \o SubSeq(s, i + 1, Len(s))

Ids(list) == [i \in 1..Len(list) |-> list[i].id]

InSeq(x, s) == \E i \in 1..Len(s) : s[i] = x

\* Request i of this kind has its response (status "ok"), or fails before the
\* backend serves it (status "pending"): the awaited promise settles.
Settled(i, kind, status) ==
    i \in 1..Len(net) /\ net[i].kind = kind /\ net[i].status = status

\* axios.get(`${API}/sources`) in the Admin view's loadSources.
ListAllReq == Req("listAll", "GET", "/sources", 0, "", <<>>)

\* ------------------------------------------------------------------- backend

ByType(list, type) == SelectSeq(list, LAMBDA s : s.type = type)

HasId(list, id) == \E i \in 1..Len(list) : list[i].id = id

\* PUT: the fields of the body replace those of the stored record.
Merge(old, body) ==
    [f \in DOMAIN old |-> IF f \in DOMAIN body THEN body[f] ELSE old[f]]

NextId == Len(StoredSources) + created + 1

\* One result group per requested source id.
SearchGroups(body, hit) ==
    [i \in 1..Len(body.source_ids) |->
        [source_id |-> body.source_ids[i], error |-> "",
         items |-> IF hit THEN <<body.query>> ELSE <<>>]]

\* The backend serves request i.
ServerOk(i) ==
    /\ i \in 1..Len(net)
    /\ net[i].status = "pending"
    /\ LET r == net[i]
           reply(data) == net' = [net EXCEPT ![i].status = "ok", ![i].data = data]
       IN CASE r.kind = "listAll" -> reply(db) /\ UNCHANGED <<db, created>>
            [] r.kind = "listByType" ->
                  reply(ByType(db, r.type)) /\ UNCHANGED <<db, created>>
            [] r.kind = "seed" ->
                  /\ reply(<<>>)
                  /\ db' = IF db = <<>> /\ created = 0 THEN SeedSources ELSE db
                  /\ UNCHANGED created
            [] r.kind = "create" ->
                  /\ reply(<<>>)
                  /\ db' = Append(db, [id |-> NextId] @@ r.body)
                  /\ created' = created + 1
            [] r.kind \in {"update", "toggle"} ->
                  /\ HasId(db, r.id)
                  /\ reply(<<>>)
                  /\ db' = [j \in 1..Len(db) |->
                              IF db[j].id = r.id THEN Merge(db[j], r.body) ELSE db[j]]
                  /\ UNCHANGED created
            [] r.kind = "delete" ->
                  /\ reply(<<>>)
                  /\ db' = SelectSeq(db, LAMBDA s : s.id # r.id)
                  /\ UNCHANGED created
            [] r.kind = "search" ->
                  /\ \E hit \in BOOLEAN : reply(SearchGroups(r.body, hit))
                  /\ UNCHANGED <<db, created>>
    /\ toast' = ""
    /\ UNCHANGED <<route, mounted, writes, sources, adminState, homeState, toggles>>

\* ---------------------------------------------------------------- Admin view

adminOnly == <<route, mounted, db, created, homeState, toggles>>

\* A user action that sends a write request.
CountWrite == writes < MaxWrites /\ writes' = writes + 1

\* useEffect(() => { loadSources(); seedDatabase(); }, [])
AdminMount ==
    /\ route = "/admin"
    /\ ~mounted
    /\ mounted' = TRUE
    /\ net' = net \o <<ListAllReq, Req("seed", "POST", "/seed", 0, "", <<>>)>>
    /\ toast' = ""
    /\ UNCHANGED <<route, db, created, writes, sources, adminState, homeState, toggles>>

\* loadSources after the await: setSources(response.data), finally setLoading(false).
ListAllResolved(i) ==
    /\ Settled(i, "listAll", "ok")
    /\ sources' = net[i].data
    /\ loading' = FALSE
    /\ net' = RemoveAt(net, i)
    /\ toast' = ""
    /\ UNCHANGED <<dialogOpen, editingSource, formData>>
    /\ UNCHANGED <<adminOnly, writes>>

\* loadSources' catch: toast.error, finally setLoading(false).
ListAllRejected(i) ==
    /\ Settled(i, "listAll", "pending")
    /\ loading' = FALSE
    /\ net' = RemoveAt(net, i)
    /\ toast' = "Erro ao carregar fontes"
    /\ UNCHANGED <<sources, dialogOpen, editingSource, formData>>
    /\ UNCHANGED <<adminOnly, writes>>

\* A variant whose catch raises a notification besides logging.
SeedSettledNotifies(i) ==
    /\ i \in 1..Len(net)
    /\ net[i].kind = "seed"
    /\ net' = RemoveAt(net, i)
    /\ toast' = IF net[i].status = "pending" THEN "Erro ao carregar fontes" ELSE ""
    /\ UNCHANGED <<sources, adminState>>
    /\ UNCHANGED <<adminOnly, writes>>

\* seedDatabase after the await: nothing on success, console.error on failure.
SeedSettled(i) ==
    /\ i \in 1..Len(net)
    /\ net[i].kind = "seed"
    /\ net' = RemoveAt(net, i)
    /\ toast' = ""
    /\ UNCHANGED <<sources, adminState>>
    /\ UNCHANGED <<adminOnly, writes>>

\* The dialog's onOpenChange: the trigger opens it, Cancel or Escape closes it.
HandleDialogOpenChange(open) ==
    /\ route = "/admin" /\ mounted
    /\ open = ~dialogOpen
    /\ dialogOpen' = open
    /\ IF open THEN UNCHANGED <<editingSource, formData>>
       ELSE editingSource' = Null /\ formData' = EmptyForm
    /\ toast' = ""
    /\ UNCHANGED <<sources, loading, net>>
    /\ UNCHANGED <<adminOnly, writes>>

\* onChange of a form field: setFormData({ ...formData, [field]: value }).
SetFormData(next) ==
    /\ route = "/admin" /\ dialogOpen
    /\ formData' = next
    /\ toast' = ""
    /\ UNCHANGED <<sources, loading, dialogOpen, editingSource, net>>
    /\ UNCHANGED <<adminOnly, writes>>

SetConfig(v) == SetFormData([formData EXCEPT !.config = v])

\* A variant whose catch does not return: configObj keeps its initial {}.
ValidateConfigFallsThrough ==
    LET parsed == JSONParse(formData.config) IN
    IF parsed.ok THEN parsed ELSE [ok |-> TRUE, v |-> JObj(<<>>)]

\* handleSubmit's inner try: ok is FALSE where the catch returns.
ValidateConfig == JSONParse(formData.config)

handleSubmit ==
    /\ route = "/admin" /\ dialogOpen
    /\ LET parsed == ValidateConfig
           data == [formData EXCEPT !.config = parsed.v]
       IN IF ~parsed.ok
          THEN /\ toast' = "Configuracao JSON invalida"
               /\ UNCHANGED <<net, writes>>
          ELSE /\ Len(net) < MaxInFlight
               /\ CountWrite
               /\ net' = Append(net,
                      IF editingSource # Null
                      THEN Req("update", "PUT", "/sources/{id}", editingSource.id, "", data)
                      ELSE Req("create", "POST", "/sources", 0, "", data))
               /\ toast' = ""
    /\ UNCHANGED <<sources, adminState>>
    /\ UNCHANGED adminOnly

\* handleSubmit after the await: toast.success, setDialogOpen(false),
\* resetForm(), loadSources().
SaveResolved(i) ==
    /\ \/ Settled(i, "create", "ok")
       \/ Settled(i, "update", "ok")
    /\ toast' = IF net[i].kind = "update" THEN "Fonte atualizada com sucesso"
                ELSE "Fonte criada com sucesso"
    /\ dialogOpen' = FALSE
    /\ editingSource' = Null
    /\ formData' = EmptyForm
    /\ net' = Append(RemoveAt(net, i), ListAllReq)
    /\ UNCHANGED <<sources, loading>>
    /\ UNCHANGED <<adminOnly, writes>>

\* A variant that closes and resets the dialog on failure too.
SaveRejectedCloses(i) ==
    /\ \/ Settled(i, "create", "pending")
       \/ Settled(i, "update", "pending")
    /\ toast' = "Erro ao salvar fonte"
    /\ dialogOpen' = FALSE
    /\ editingSource' = Null
    /\ formData' = EmptyForm
    /\ net' = RemoveAt(net, i)
    /\ UNCHANGED <<sources, loading>>
    /\ UNCHANGED <<adminOnly, writes>>

\* handleSubmit's outer catch.
SaveRejected(i) ==
    /\ \/ Settled(i, "create", "pending")
       \/ Settled(i, "update", "pending")
    /\ toast' = "Erro ao salvar fonte"
    /\ net' = RemoveAt(net, i)
    /\ UNCHANGED <<sources, adminState>>
    /\ UNCHANGED <<adminOnly, writes>>

\* The rows are rendered once loading is false; the open dialog is modal.
RowShown(s) == route = "/admin" /\ ~loading /\ ~dialogOpen /\ InSeq(s, sources)

handleEdit(source) ==
    /\ RowShown(source)
    /\ editingSource' = source
    /\ formData' = [name |-> source.name, type |-> source.type,
                    url_base |-> source.url_base,
                    search_method |-> source.search_method,
                    config |-> JSONStringify(source.config, 2),
                    enabled |-> source.enabled]
    /\ dialogOpen' = TRUE
    /\ toast' = ""
    /\ UNCHANGED <<sources, loading, net>>
    /\ UNCHANGED <<adminOnly, writes>>

\* A variant that does not consult window.confirm.
HandleDeleteUnconfirmed(id, confirmed) ==
    /\ \E k \in 1..Len(sources) : sources[k].id = id /\ RowShown(sources[k])
    /\ confirmed \in BOOLEAN
    /\ Len(net) < MaxInFlight
    /\ CountWrite
    /\ net' = Append(net, Req("delete", "DELETE", "/sources/{id}", id, "", <<>>))
    /\ toast' = ""
    /\ UNCHANGED <<sources, adminState>>
    /\ UNCHANGED adminOnly

\* handleDelete(id) from a row's button; confirmed is what window.confirm returns.
handleDelete(id, confirmed) ==
    /\ \E k \in 1..Len(sources) : sources[k].id = id /\ RowShown(sources[k])
    /\ IF ~confirmed THEN UNCHANGED <<net, writes>>
       ELSE /\ Len(net) < MaxInFlight
            /\ CountWrite
            /\ net' = Append(net,
                   Req("delete", "DELETE", "/sources/{id}", id, "", <<>>))
    /\ toast' = ""
    /\ UNCHANGED <<sources, adminState>>
    /\ UNCHANGED adminOnly

DeleteResolved(i) ==
    /\ Settled(i, "delete", "ok")
    /\ toast' = "Fonte excluida com sucesso"
    /\ net' = Append(RemoveAt(net, i), ListAllReq)
    /\ UNCHANGED <<sources, adminState>>
    /\ UNCHANGED <<adminOnly, writes>>

DeleteRejected(i) ==
    /\ Settled(i, "delete", "pending")
    /\ toast' = "Erro ao excluir fonte"
    /\ net' = RemoveAt(net, i)
    /\ UNCHANGED <<sources, adminState>>
    /\ UNCHANGED <<adminOnly, writes>>

\* handleToggleEnabled up to the await; source is the row's record as rendered.
ToggleClicked(source) ==
    /\ RowShown(source)
    /\ Len(net) < MaxInFlight
    /\ net' = Append(net, Req("toggle", "PUT", "/sources/{id}", source.id, "",
                              [enabled |-> ~source.enabled]))
    /\ toast' = ""
    /\ UNCHANGED <<route, mounted, db, created, sources, adminState, homeState>>

handleToggleEnabled(source) == ToggleClicked(source) /\ CountWrite /\ UNCHANGED toggles

\* The same click, counted per source instead of against the visit's budget.
ToggleCounted(source) ==
    /\ ToggleClicked(source)
    /\ toggles' = [toggles EXCEPT ![source.id] = ~@]
    /\ UNCHANGED writes

\* A variant that flips the row in place instead of calling loadSources().
ToggleResolvedPatches(i) ==
    /\ Settled(i, "toggle", "ok")
    /\ toast' = ""
    /\ sources' = [k \in 1..Len(sources) |->
                     IF sources[k].id = net[i].id
                     THEN Merge(sources[k], net[i].body) ELSE sources[k]]
    /\ net' = RemoveAt(net, i)
    /\ UNCHANGED <<loading, dialogOpen, editingSource, formData>>
    /\ UNCHANGED <<adminOnly, writes>>

\* handleToggleEnabled after the await: loadSources().
ToggleResolved(i) ==
    /\ Settled(i, "toggle", "ok")
    /\ toast' = ""
    /\ net' = Append(RemoveAt(net, i), ListAllReq)
    /\ UNCHANGED <<sources, adminState>>
    /\ UNCHANGED <<adminOnly, writes>>

ToggleRejected(i) ==
    /\ Settled(i, "toggle", "pending")
    /\ toast' = "Erro ao atualizar fonte"
    /\ net' = RemoveAt(net, i)
    /\ UNCHANGED <<sources, adminState>>
    /\ UNCHANGED <<adminOnly, writes>>

\* ----------------------------------------------------------------- Home view

homeOnly == <<route, mounted, db, created, writes, loading, dialogOpen, editingSource,
              formData, toggles>>

\* axios.get(`${API}/sources/by-type/${contentType}`) in the Home view's loadSources.
ListByTypeReq(type) == Req("listByType", "GET", "/sources/by-type/{type}", 0, type, <<>>)

\* useEffect(() => { loadSources(); }, [contentType]) on the first render.
HomeMount ==
    /\ route = "/"
    /\ ~mounted
    /\ mounted' = TRUE
    /\ net' = Append(net, ListByTypeReq(contentType))
    /\ toast' = ""
    /\ UNCHANGED <<route, db, created, writes, sources, adminState, homeState, toggles>>

\* The select's onValueChange, and the effect that the changed value triggers.
setContentType(type) ==
    /\ route = "/" /\ mounted
    /\ type # contentType
    /\ Len(net) < MaxInFlight
    /\ contentType' = type
    /\ net' = Append(net, ListByTypeReq(type))
    /\ toast' = ""
    /\ UNCHANGED <<sources, query, selectedSources, searching, results, hasSearched>>
    /\ UNCHANGED homeOnly

\* loadSources after the await.
ListByTypeResolved(i) ==
    /\ Settled(i, "listByType", "ok")
    /\ sources' = net[i].data
    /\ selectedSources' = Ids(net[i].data)
    /\ net' = RemoveAt(net, i)
    /\ toast' = ""
    /\ UNCHANGED <<query, contentType, searching, results, hasSearched>>
    /\ UNCHANGED homeOnly

ListByTypeRejected(i) ==
    /\ Settled(i, "listByType", "pending")
    /\ net' = RemoveAt(net, i)
    /\ toast' = "Erro ao carregar fontes"
    /\ UNCHANGED <<sources, homeState>>
    /\ UNCHANGED homeOnly

\* The search input's onChange.
setQuery(value) ==
    /\ route = "/" /\ mounted
    /\ query' = value
    /\ toast' = ""
    /\ UNCHANGED <<sources, contentType, selectedSources, searching, results,
                   hasSearched, net>>
    /\ UNCHANGED homeOnly

toggleSource(sourceId) ==
    /\ route = "/" /\ mounted
    /\ InSeq(sourceId, Ids(sources))
    /\ selectedSources' =
          IF InSeq(sourceId, selectedSources)
          THEN SelectSeq(selectedSources, LAMBDA id : id # sourceId)
          ELSE Append(selectedSources, sourceId)
    /\ toast' = ""
    /\ UNCHANGED <<sources, query, contentType, searching, results, hasSearched, net>>
    /\ UNCHANGED homeOnly

\* String.prototype.trim
TrimWhitespace == {" ", "\t", "\n", "\r"}

RECURSIVE TrimStart(_)
TrimStart(s) == IF s # <<>> /\ Head(s) \in TrimWhitespace THEN TrimStart(Tail(s)) ELSE s

RECURSIVE TrimEnd(_)
TrimEnd(s) ==
    IF s # <<>> /\ s[Len(s)] \in TrimWhitespace THEN TrimEnd(SubSeq(s, 1, Len(s) - 1))
    ELSE s

TrimNothing(s) == s

Trim(s) == TrimEnd(TrimStart(s))

handleSearch ==
    /\ route = "/" /\ mounted
    /\ IF Trim(query) = <<>>
       THEN /\ toast' = "Digite algo para buscar"
            /\ UNCHANGED <<searching, hasSearched, net>>
       ELSE IF Len(selectedSources) = 0
       THEN /\ toast' = "Selecione ao menos uma fonte"
            /\ UNCHANGED <<searching, hasSearched, net>>
       ELSE /\ Len(net) < MaxInFlight
            /\ searching' = TRUE
            /\ hasSearched' = TRUE
            /\ net' = Append(net, Req("search", "POST", "/search", 0, "",
                                      [query |-> Trim(query), type |-> contentType,
                                       source_ids |-> selectedSources]))
            /\ toast' = ""
    /\ UNCHANGED <<sources, query, contentType, selectedSources, results>>
    /\ UNCHANGED homeOnly

\* The search button: onClick={handleSearch} disabled={searching}.
SearchClicked == ~searching /\ handleSearch

\* The search input's onKeyPress.
handleKeyPress(key) ==
    IF key = "Enter" THEN handleSearch
    ELSE /\ route = "/" /\ mounted
         /\ toast' = ""
         /\ UNCHANGED <<sources, homeState, net>>
         /\ UNCHANGED homeOnly

Keys == {"Enter", "a"}

\* A variant that drops the response of a search that a later one has
\* superseded.
SearchResolvedNewestOnly(i) ==
    /\ Settled(i, "search", "ok")
    /\ results' = IF \E j \in (i + 1)..Len(net) : net[j].kind = "search"
                  THEN results ELSE net[i].data
    /\ toast' = IF \A g \in 1..Len(net[i].data) : Len(net[i].data[g].items) = 0
                THEN "Nenhum resultado encontrado" ELSE ""
    /\ searching' = FALSE
    /\ net' = RemoveAt(net, i)
    /\ UNCHANGED <<sources, query, contentType, selectedSources, hasSearched>>
    /\ UNCHANGED homeOnly

\* handleSearch after the await: setResults, toast.info when every group is
\* empty, finally setSearching(false).
SearchResolved(i) ==
    /\ Settled(i, "search", "ok")
    /\ results' = net[i].data
    /\ toast' = IF \A g \in 1..Len(net[i].data) : Len(net[i].data[g].items) = 0
                THEN "Nenhum resultado encontrado" ELSE ""
    /\ searching' = FALSE
    /\ net' = RemoveAt(net, i)
    /\ UNCHANGED <<sources, query, contentType, selectedSources, hasSearched>>
    /\ UNCHANGED homeOnly

\* A variant without the finally block's setSearching(false) on this path.
SearchRejectedStuck(i) ==
    /\ Settled(i, "search", "pending")
    /\ toast' = "Erro ao realizar busca"
    /\ net' = RemoveAt(net, i)
    /\ UNCHANGED <<sources, query, contentType, selectedSources, searching, results,
                   hasSearched>>
    /\ UNCHANGED homeOnly

\* handleSearch's catch, then finally setSearching(false).
SearchRejected(i) ==
    /\ Settled(i, "search", "pending")
    /\ toast' = "Erro ao realizar busca"
    /\ searching' = FALSE
    /\ net' = RemoveAt(net, i)
    /\ UNCHANGED <<sources, query, contentType, selectedSources, results, hasSearched>>
    /\ UNCHANGED homeOnly

\* ------------------------------------------------------------ specifications

Slots == 1..MaxInFlight

SourceIds == 1..(Len(StoredSources) + MaxWrites)

\* The browser loads one of the two routes.  The Admin view is loaded over an
\* empty collection, which its POST /seed fills; the Home view over a seeded one.
InitWith(path, collection) ==
    /\ route = path
    /\ db = collection
    /\ mounted = FALSE
    /\ created = 0
    /\ writes = 0
    /\ net = <<>>
    /\ toast = ""
    /\ sources = <<>>
    /\ loading = TRUE
    /\ dialogOpen = FALSE
    /\ editingSource = Null
    /\ formData = EmptyForm
    /\ query = <<>>
    /\ contentType = "game"
    /\ selectedSources = <<>>
    /\ searching = FALSE
    /\ results = <<>>
    /\ hasSearched = FALSE
    /\ toggles = [id \in SourceIds |-> FALSE]

\* The content types that have a stored source.
StoredTypes == {StoredSources[k].type : k \in 1..Len(StoredSources)}

Init == InitWith("/", StoredSources) \/ InitWith("/admin", <<>>)

Backend == \E i \in Slots : ServerOk(i)

AdminUser ==
    \/ \E open \in BOOLEAN : HandleDialogOpenChange(open)
    \/ \E v \in TypedConfigs : SetConfig(v)
    \/ handleSubmit
    \/ \E k \in 1..Len(sources) : handleEdit(sources[k])
    \/ \E id \in SourceIds, confirmed \in BOOLEAN : handleDelete(id, confirmed)
    \/ \E k \in 1..Len(sources) : handleToggleEnabled(sources[k])

AdminContinue ==
    \E i \in Slots :
        \/ ListAllResolved(i) \/ ListAllRejected(i) \/ SeedSettled(i)
        \/ SaveResolved(i) \/ SaveRejected(i)
        \/ DeleteResolved(i) \/ DeleteRejected(i)
        \/ ToggleResolved(i) \/ ToggleRejected(i)

HomeUser ==
    \/ \E type \in StoredTypes : setContentType(type)
    \/ \E value \in TypedQueries : setQuery(value)
    \/ \E id \in SourceIds : toggleSource(id)
    \/ SearchClicked
    \/ \E key \in Keys : handleKeyPress(key)

HomeContinue ==
    \E i \in Slots :
        \/ ListByTypeResolved(i) \/ ListByTypeRejected(i)
        \/ SearchResolved(i) \/ SearchRejected(i)

Next ==
    \/ AdminMount \/ AdminUser \/ AdminContinue
    \/ HomeMount \/ HomeUser \/ HomeContinue
    \/ Backend

Spec == Init /\ [][Next]_vars

\* Content-type changes in the Home view over a backend that answers every
\* request.
NextTypeChange ==
    \/ HomeMount
    \/ \E type \in ContentTypes : setContentType(type)
    \/ \E i \in Slots : ServerOk(i)
    \/ \E i \in Slots : ListByTypeResolved(i)

SpecTypeChange == InitWith("/", StoredSources) /\ [][NextTypeChange]_vars

\* Clicks on the rows' switches in the Admin view, over a seeded collection and
\* a backend that answers every request.
NextToggle ==
    \/ AdminMount
    \/ \E k \in 1..Len(sources) : ToggleCounted(sources[k])
    \/ \E i \in Slots : ServerOk(i)
    \/ \E i \in Slots : ListAllResolved(i) \/ SeedSettled(i) \/ ToggleResolved(i)

SpecToggle == InitWith("/admin", SeedSources) /\ [][NextToggle]_vars

\* Configs a stored source may hold.
ObjNested ==
    JObj(<< Member(<<"a">>, JObj(<< Member(<<"b">>,
                JArr(<< Elem(JNum(-120)), Elem(JStr(<<"x", " ", "y">>)),
                        Elem(JArr(<<>>)) >>)) >>)),
            Member(<<"b">>, JNull),
            Member(<<"e">>, JBool(TRUE)) >>)

ObjMixed ==
    JObj(<< Member(<<"s">>, JStr(<<>>)),
            Member(<<"t">>, JStr(<<"t", "r", "u", "e">>)),
            Member(<<"n">>, JNum(10)),
            Member(<<"f">>, JBool(FALSE)),
            Member(<<"l">>, JArr(<< Elem(JObj(<<>>)), Elem(JNum(0)) >>)) >>)

JsonObjects == {JObj(<<>>), ObjA1, ObjNested, ObjMixed}

\* Editing a stored source: the Admin view over a collection of one source
\* whose config is any of JsonObjects.
InitEdit ==
    \E c \in JsonObjects :
        InitWith("/admin",
                 <<Source(1, "Steam", "game", "https://s/?q={query}", "api", c, TRUE)>>)

NextEdit ==
    \/ AdminMount
    \/ \E open \in BOOLEAN : HandleDialogOpenChange(open)
    \/ \E k \in 1..Len(sources) : handleEdit(sources[k])
    \/ handleSubmit
    \/ \E i \in Slots : ServerOk(i)
    \/ \E i \in Slots : ListAllResolved(i) \/ SeedSettled(i)
    \/ \E i \in Slots : SaveResolved(i) \/ SaveRejected(i)

SpecEdit == InitEdit /\ [][NextEdit]_vars

\* -------------------------------------------------------------------- claims

Outstanding(kind) == {i \in 1..Len(net) : net[i].kind = kind}

\* The request the step has just sent, when it has sent one.
Sent == Len(net') = Len(net) + 1 /\ SubSeq(net', 1, Len(net)) = net

\* C1: whenever handleSubmit runs on a config text that JSON.parse rejects, no
\* request is sent, the validation notification is raised, and the dialog stays
\* open with formData and editingSource as they were.
C1_MalformedConfigIsNotSent ==
    [][(handleSubmit /\ ~JSONParse(formData.config).ok)
        => /\ net' = net
           /\ toast' = "Configuracao JSON invalida"
           /\ dialogOpen'
           /\ formData' = formData
           /\ editingSource' = editingSource]_vars

\* A source is being edited, its config text has been made unparseable, and
\* the submission has just been refused.
C1_Witness ==
    /\ toast = "Configuracao JSON invalida"
    /\ dialogOpen
    /\ editingSource # Null
    /\ formData.config = TxtUnclosed
    /\ Outstanding("update") = {}

IsBlank(s) == \A k \in 1..Len(s) : s[k] \in TrimWhitespace

\* q is s without its leading and trailing whitespace.
IsTrimOf(q, s) ==
    \E i \in 1..Len(s), j \in 1..Len(s) :
        /\ i <= j
        /\ q = SubSeq(s, i, j)
        /\ s[i] \notin TrimWhitespace
        /\ s[j] \notin TrimWhitespace
        /\ \A k \in 1..Len(s) : (k < i \/ k > j) => s[k] \in TrimWhitespace

\* C2: handleSearch on a blank query or an empty selection raises a
\* notification, sends nothing and leaves searching, hasSearched and results
\* as they were; otherwise the request it sends is a POST /search that carries
\* the trimmed query and the non-empty selection.
C2_SearchPreconditions ==
    [][handleSearch
        => IF IsBlank(query) \/ Len(selectedSources) = 0
           THEN /\ toast' \in {"Digite algo para buscar", "Selecione ao menos uma fonte"}
                /\ UNCHANGED <<net, searching, hasSearched, results>>
           ELSE /\ Sent
                /\ net'[Len(net')].path = "/search"
                /\ IsTrimOf(net'[Len(net')].body.query, query)
                /\ net'[Len(net')].body.source_ids = selectedSources
                /\ Len(net'[Len(net')].body.source_ids) > 0]_vars

\* A search was sent with the query trimmed, and a later submission of a
\* whitespace-only query has just been refused.
C2_Witness ==
    /\ toast = "Digite algo para buscar"
    /\ query = <<" ">>
    /\ \E i \in Outstanding("search") : net[i].body.query = <<"a">>

\* C3: at most one POST /search is outstanding at any time.
C3_OneSearchOutstanding == Cardinality(Outstanding("search")) <= 1

\* C4: once every listByType request has resolved, the list is the one the
\* backend holds for the selected content type and the selection is the ids of
\* that list.
C4_ListMatchesContentType ==
    (route = "/" /\ mounted /\ net = <<>>)
        => /\ sources = ByType(db, contentType)
           /\ selectedSources = Ids(sources)

\* C5: when loadSources succeeds in the Home view, no disabled source of the
\* response is in the selection it sets.
C5_DisabledNotSelected ==
    [][\A i \in Slots :
          ListByTypeResolved(i)
            => \A k \in 1..Len(sources') :
                  ~sources'[k].enabled => ~InSeq(sources'[k].id, selectedSources')]_vars

\* C6: handleDelete with the confirmation dismissed sends nothing and leaves
\* the list alone, and a step sends DELETE /sources/{id} only as handleDelete
\* with the confirmation given for that id.
C6_DeleteOnlyWhenConfirmed ==
    [][/\ \A id \in SourceIds :
             handleDelete(id, FALSE) => UNCHANGED <<net, sources, db>>
       /\ (Sent /\ net'[Len(net')].method = "DELETE")
             => /\ net'[Len(net')].path = "/sources/{id}"
                /\ InSeq(net'[Len(net')].id, Ids(sources))
                /\ handleDelete(net'[Len(net')].id, TRUE)]_vars

\* A DELETE for a listed source is outstanding.
C6_Witness ==
    \E i \in Outstanding("delete") :
        net[i].method = "DELETE" /\ InSeq(net[i].id, Ids(sources))

\* C7: once every request has resolved, each listed source's enabled value is
\* its seeded value flipped once per click on its switch.
C7_FlippedOncePerToggle ==
    (route = "/admin" /\ mounted /\ net = <<>>)
        => \A k \in 1..Len(sources) :
              sources[k].enabled = (SeedSources[k].enabled # toggles[sources[k].id])

\* C8: every POST /sources and PUT /sources/{id} that handleSubmit sends
\* carries a config that is a JSON object.
C8_WriteCarriesObject ==
    \A i \in Outstanding("create") \cup Outstanding("update") :
        net[i].body.config.t = "object"

PrettyA1 == <<"{", "\n", " ", " ", "\"", "a", "\"", ":", " ", "1", "\n", "}">>

\* C9: handleEdit shows {"a":1} as its two-space pretty-printed text, and
\* submitting the text that handleEdit showed for a source's config object
\* sends a config equal to that object.
C9_ConfigRoundTrip ==
    [][/\ \A k \in 1..Len(sources) :
             (handleEdit(sources[k]) /\ sources[k].config = ObjA1)
                => formData'.config = PrettyA1
       /\ (/\ handleSubmit
           /\ editingSource # Null
           /\ editingSource.config.t = "object"
           /\ formData.config = JSONStringify(editingSource.config, 2))
             => /\ Sent
                /\ net'[Len(net')].method = "PUT"
                /\ net'[Len(net')].body.config = editingSource.config]_vars

\* The nested config has gone through the form and is on its way back.
C9_Witness ==
    \E i \in Outstanding("update") :
        /\ net[i].body.config = ObjNested
        /\ editingSource # Null
        /\ editingSource.config = ObjNested

\* The awaited request i fails in this step: it leaves net unanswered.
Rejects(i) ==
    /\ i \in 1..Len(net)
    /\ net[i].status = "pending"
    /\ net[i].kind # "seed"
    /\ net' # net
    /\ \/ net' = RemoveAt(net, i)
       \/ /\ Len(net') = Len(net)
          /\ net' = Append(RemoveAt(net, i), net'[Len(net')])
          /\ net'[Len(net')].status = "pending"

FailureToast(kind) ==
    CASE kind \in {"listAll", "listByType"} -> "Erro ao carregar fontes"
      [] kind \in {"create", "update"} -> "Erro ao salvar fonte"
      [] kind = "toggle" -> "Erro ao atualizar fonte"
      [] kind = "delete" -> "Erro ao excluir fonte"
      [] kind = "search" -> "Erro ao realizar busca"

\* C10: the step in which a listAll, listByType, create, update, toggle,
\* delete or search request fails raises that call's notification, issues no
\* request, and leaves the list, the selection, the results, the dialog, the
\* form and editingSource as they were.
C10_FailureLeavesState ==
    [][\A i \in Slots :
          Rejects(i)
            => /\ toast' = FailureToast(net[i].kind)
               /\ net' = RemoveAt(net, i)
               /\ UNCHANGED <<sources, selectedSources, results, dialogOpen,
                              formData, editingSource>>]_vars

\* An update has just failed and the dialog is still open on the edited source.
C10_Witness ==
    /\ toast = "Erro ao salvar fonte"
    /\ dialogOpen
    /\ editingSource # Null
    /\ formData.config = JSONStringify(editingSource.config, 2)

\* The awaited request i settles in this step: it leaves net, and the
\* continuation may send one request of its own.
Leaves(i) ==
    /\ i \in 1..Len(net)
    /\ net' # net
    /\ \/ net' = RemoveAt(net, i)
       \/ /\ Len(net') = Len(net)
          /\ net' = Append(RemoveAt(net, i), net'[Len(net')])
          /\ net'[Len(net')].status = "pending"

\* C11: the step in which a search request settles, answered or failed, ends
\* with searching false, and the step in which a listAll settles ends with
\* loading false; searching is true only while a search is outstanding, and
\* the mounted Admin view is loading only while a listAll is outstanding.
C11_FlagsClearOnSettle ==
    /\ [](/\ searching => Outstanding("search") # {}
          /\ (route = "/admin" /\ mounted /\ loading) => Outstanding("listAll") # {})
    /\ [][\A i \in Slots :
            Leaves(i) => /\ net[i].kind = "search" => ~searching'
                         /\ net[i].kind = "listAll" => ~loading']_vars

\* A search has just failed and the search button is enabled again.
C11_Witness ==
    /\ toast = "Erro ao realizar busca"
    /\ hasSearched
    /\ ~searching
    /\ Outstanding("search") = {}

WriteKinds == {"create", "update", "toggle", "delete"}

ListAlls(requests) ==
    Cardinality({i \in 1..Len(requests) : requests[i].kind = "listAll"})

\* C12: in the Admin view a step changes the list only by setting it to the
\* data of a listAll response that settles in that step, and every answered
\* listAll sets it so; the step in which a create, update, toggle or delete
\* settles issues a listAll when the request was answered and issues nothing
\* when it failed; and a listAll is issued only by the mount effect or by such
\* an answered write.
C12_ListReplacedByListAll ==
    [][route = "/admin" =>
        /\ sources' # sources =>
              \E i \in Slots :
                  /\ Leaves(i)
                  /\ net[i].kind = "listAll" /\ net[i].status = "ok"
                  /\ sources' = net[i].data
        /\ \A i \in Slots :
              (Leaves(i) /\ net[i].kind = "listAll" /\ net[i].status = "ok")
                  => sources' = net[i].data
        /\ \A i \in Slots :
              (Leaves(i) /\ net[i].kind \in WriteKinds)
                  => IF net[i].status = "ok"
                     THEN net' = Append(RemoveAt(net, i), ListAllReq)
                     ELSE net' = RemoveAt(net, i)
        /\ ListAlls(net') > ListAlls(net) =>
              \/ ~mounted /\ mounted'
              \/ \E i \in Slots :
                    /\ Leaves(i)
                    /\ net[i].kind \in WriteKinds /\ net[i].status = "ok"]_vars

\* A delete has just succeeded: the reload is outstanding and the list still
\* shows the row the backend no longer holds.
C12_Witness ==
    /\ route = "/admin"
    /\ toast = "Fonte excluida com sucesso"
    /\ Outstanding("listAll") # {}
    /\ sources # <<>>
    /\ db = <<>>

Seeds(requests) ==
    Cardinality({i \in 1..Len(requests) : requests[i].kind = "seed"})

\* C13: a POST /seed is outstanding only in the mounted Admin view and never
\* more than one; the step that mounts the Admin view sends exactly one, no
\* other step sends any, and the view is never mounted a second time; and the
\* step in which the seed request fails raises no notification, sends nothing
\* and leaves the list, loading, the dialog, the form and editingSource as
\* they were.
C13_SeedOnceAndSwallowed ==
    /\ [](/\ Seeds(net) <= 1
          /\ Seeds(net) > 0 => (route = "/admin" /\ mounted))
    /\ [][/\ Seeds(net') > Seeds(net) => (route = "/admin" /\ ~mounted /\ mounted')
          /\ (route = "/admin" /\ ~mounted /\ mounted') => Seeds(net') = Seeds(net) + 1
          /\ mounted => mounted'
          /\ \A i \in Slots :
                (Leaves(i) /\ net[i].kind = "seed" /\ net[i].status = "pending")
                    => /\ toast' = ""
                       /\ net' = RemoveAt(net, i)
                       /\ UNCHANGED <<sources, loading, dialogOpen, formData,
                                      editingSource>>]_vars

\* The seed request has failed (the collection is still empty and nothing
\* was written), the list has loaded, and no notification is up.
C13_Witness ==
    /\ route = "/admin" /\ mounted
    /\ Seeds(net) = 0
    /\ db = <<>> /\ writes = 0
    /\ ~loading
    /\ toast = ""

\* C14: results is empty until a search has been submitted; the step in which
\* a search request settles sets results to the response's payload when the
\* request was answered and leaves results alone when it failed, whatever
\* other searches are outstanding and in whatever order they were sent; no
\* other step changes results; and handleSearch removes no outstanding
\* request when it sends a new one.
C14_ResultsAreLatestAnswer ==
    /\ [](~hasSearched => results = <<>>)
    /\ [][/\ \A i \in Slots :
                (Leaves(i) /\ net[i].kind = "search")
                    => results' = IF net[i].status = "ok" THEN net[i].data
                                  ELSE results
          /\ results' # results =>
                \E i \in Slots :
                    /\ Leaves(i)
                    /\ net[i].kind = "search" /\ net[i].status = "ok"
                    /\ results' = net[i].data
          /\ (handleSearch /\ net' # net) => Sent]_vars

\* Two searches overlap: one response has been shown, and the answer to the
\* other, a different payload, is still to be delivered.
C14_Witness ==
    /\ results # <<>>
    /\ \E i \in Outstanding("search") :
          net[i].status = "ok" /\ net[i].data # results

\* C15: every outstanding POST /search names only sources that the backend
\* lists for the content type the request carries.
C15_SearchIdsMatchType ==
    \A i \in Outstanding("search") :
        \A k \in 1..Len(net[i].body.source_ids) :
            InSeq(net[i].body.source_ids[k], Ids(ByType(db, net[i].body.type)))

====
